---- MODULE Spec2Model ----
(***************************************************************************)
(* A model of the frame-loop performance harness of src/code/src/game.ts:  *)
(* the render loop that times one draw per frame and appends a sample, the *)
(* mouse-move flag, the statistics over the two groups of samples, and the *)
(* click handler that packages the samples and the statistics into a zip   *)
(* whose generation completes asynchronously.                              *)
(*                                                                         *)
(* JavaScript numbers are IEEE-754 binary floating point, rounded to       *)
(* nearest, ties to even.  The model keeps that arithmetic and its         *)
(* rounding, with a mantissa of Precision bits where the build has 53, and *)
(* without the exponent limits (no duration comes near them).  A value     *)
(* whose mantissa fills the model's precision behaves as a double such as  *)
(* 0.1 does in the build.                                                   *)
(***************************************************************************)
EXTENDS Integers, Sequences, FiniteSets, TLC

\* Mantissa bits of a number of the model (53 in the build).
Precision == 5
\* Frames rendered in one run of the model.
MaxFrames == 3
\* Exports accepted in one run of the model.
MaxExports == 2

-----------------------------------------------------------------------------
(* Numbers: m * 2^e with m odd (or m = 0, e = 0), NaN, +Infinity, -Infinity. *)

Num(m, e) == [k |-> "num", m |-> m, e |-> e]
NaN == [k |-> "nan", m |-> 0, e |-> 0]
Infinity(s) == [k |-> "inf", m |-> s, e |-> 0]
Zero == Num(0, 0)

Abs(n) == IF n < 0 THEN -n ELSE n
Sign(n) == IF n < 0 THEN -1 ELSE IF n > 0 THEN 1 ELSE 0
Min(a, b) == IF a < b THEN a ELSE b

RECURSIVE BitLen(_)
BitLen(n) == IF n = 0 THEN 0 ELSE 1 + BitLen(n \div 2)

\* The canonical form of n * 2^e.
RECURSIVE Canon(_, _)
Canon(n, e) ==
  IF n = 0 THEN Zero
  ELSE IF n % 2 = 0 THEN Canon(n \div 2, e + 1)
  ELSE Num(n, e)

\* The number nearest to s * (q + f) * 2^e, where q >= 0 is an integer and
\* 0 <= f < 1 is zero exactly when sticky is FALSE: round to nearest with
\* Precision bits of mantissa, ties to even.  q has more than Precision bits
\* whenever sticky is TRUE.
FRound(s, q, e, sticky) ==
  LET sh == BitLen(q) - Precision IN
  IF sh <= 0 THEN Canon(s * q, e)
  ELSE
    LET hi == q \div (2 ^ sh)
        lo == q % (2 ^ sh)
        half == 2 ^ (sh - 1)
        up == \/ lo > half
              \/ lo = half /\ sticky
              \/ lo = half /\ ~sticky /\ hi % 2 = 1
    IN Canon(s * (IF up THEN hi + 1 ELSE hi), e + sh)

\* An integer (an array length, a literal) as a number.
FromInt(n) == FRound(Sign(n), Abs(n), 0, FALSE)

FNeg(x) ==
  IF x.k = "nan" THEN NaN
  ELSE IF x.k = "inf" THEN Infinity(-x.m)
  ELSE Num(-x.m, x.e)

\* x + y
FAdd(x, y) ==
  IF x.k = "nan" \/ y.k = "nan" THEN NaN
  ELSE IF x.k = "inf" /\ y.k = "inf" THEN (IF x.m = y.m THEN x ELSE NaN)
  ELSE IF x.k = "inf" THEN x
  ELSE IF y.k = "inf" THEN y
  ELSE
    LET lo == Min(x.e, y.e)
        n == x.m * (2 ^ (x.e - lo)) + y.m * (2 ^ (y.e - lo))
    IN FRound(Sign(n), Abs(n), lo, FALSE)

\* x - y
FSub(x, y) == FAdd(x, FNeg(y))

\* x * y
FMul(x, y) ==
  IF x.k = "nan" \/ y.k = "nan" THEN NaN
  ELSE IF x.k = "inf" \/ y.k = "inf" THEN
    (IF x.m = 0 \/ y.m = 0 THEN NaN ELSE Infinity(Sign(x.m) * Sign(y.m)))
  ELSE FRound(Sign(x.m) * Sign(y.m), Abs(x.m) * Abs(y.m), x.e + y.e, FALSE)

\* The number nearest to s * (a / b) * 2^e, for integers a >= 0 and b > 0.
FQuot(s, a, b, e) ==
  IF a = 0 THEN Zero
  ELSE
    LET \* enough quotient bits for the rounding: a * 2^sc >= b * 2^Precision
        sc == Precision + BitLen(b)
        q == (a * (2 ^ sc)) \div b
        r == (a * (2 ^ sc)) % b
    IN FRound(s, q, e - sc, r # 0)

\* x / y
FDiv(x, y) ==
  IF x.k = "nan" \/ y.k = "nan" THEN NaN
  ELSE IF x.k = "inf" THEN
    (IF y.k = "inf" THEN NaN
     ELSE Infinity(x.m * (IF y.m < 0 THEN -1 ELSE 1)))
  ELSE IF y.k = "inf" THEN Zero
  ELSE IF y.m = 0 THEN
    (IF x.m = 0 THEN NaN ELSE Infinity(Sign(x.m)))
  ELSE FQuot(Sign(x.m) * Sign(y.m), Abs(x.m), Abs(y.m), x.e - y.e)

\* The integer square root: the r with r*r <= n < (r+1)*(r+1).
RECURSIVE ISqrt(_)
ISqrt(n) ==
  IF n < 2 THEN n
  ELSE LET r == 2 * ISqrt(n \div 4)
       IN IF (r + 1) * (r + 1) > n THEN r ELSE r + 1

\* Math.sqrt(x)
MathSqrt(x) ==
  IF x.k = "nan" THEN NaN
  ELSE IF x.k = "inf" THEN (IF x.m > 0 THEN x ELSE NaN)
  ELSE IF x.m < 0 THEN NaN
  ELSE IF x.m = 0 THEN Zero
  ELSE
    LET \* an even exponent, and at least 2 * Precision bits under the root
        sc0 == 2 * Precision
        sc == IF (x.e - sc0) % 2 = 0 THEN sc0 ELSE sc0 + 1
        v == x.m * (2 ^ sc)
        r == ISqrt(v)
    IN FRound(1, r, (x.e - sc) \div 2, r * r # v)

\* The deviation left unsquared.
MathPow2_Unsquared(x) == x

\* Math.pow(x, 2)
MathPow2(x) == FMul(x, x)

-----------------------------------------------------------------------------
(* Strings are sequences of one-character strings.                          *)

DigitChars == <<"0", "1", "2", "3", "4", "5", "6", "7", "8", "9">>
NL == "\n"

\* The decimal digits of a natural number.
RECURSIVE NatToString(_)
NatToString(n) ==
  IF n < 10 THEN <<DigitChars[n + 1]>>
  ELSE NatToString(n \div 10) \o <<DigitChars[(n % 10) + 1]>>

\* The last w decimal digits of n, with leading zeros.
RECURSIVE FixedDigits(_, _)
FixedDigits(n, w) ==
  IF w = 0 THEN <<>>
  ELSE FixedDigits(n \div 10, w - 1) \o <<DigitChars[(n % 10) + 1]>>

\* String(x) of a number, as a template literal `${x}` converts it: the
\* digits of an integer, or the integer part, a dot and the fraction.  The
\* fraction of m * 2^e has -e decimal digits, no trailing zero among them.
NumberToString(x) ==
  IF x.k = "nan" THEN <<"N", "a", "N">>
  ELSE IF x.k = "inf" THEN
    (IF x.m < 0 THEN <<"-">> ELSE <<>>)
      \o <<"I", "n", "f", "i", "n", "i", "t", "y">>
  ELSE
    LET sgn == IF x.m < 0 THEN <<"-">> ELSE <<>>
        a == Abs(x.m)
    IN IF x.e >= 0 THEN sgn \o NatToString(a * (2 ^ x.e))
       ELSE
         LET den == 2 ^ (-x.e)
         IN sgn \o NatToString(a \div den) \o <<".">>
              \o FixedDigits((a % den) * (5 ^ (-x.e)), -x.e)

\* String(b) of a boolean.
BooleanToString(b) ==
  IF b THEN <<"t", "r", "u", "e">> ELSE <<"f", "a", "l", "s", "e">>

\* x.toFixed(2): the integer n with n / 100 nearest to x (the larger n of
\* two), written with two digits after the dot.
ToFixed2(x) ==
  IF x.k # "num" THEN NumberToString(x)
  ELSE
    LET a == Abs(x.m)
        n == IF x.e >= 0 THEN a * (2 ^ x.e) * 100
             ELSE (a * 200 + 2 ^ (-x.e)) \div (2 * (2 ^ (-x.e)))
    IN (IF x.m < 0 THEN <<"-">> ELSE <<>>)
         \o NatToString(n \div 100) \o <<".">> \o FixedDigits(n % 100, 2)

\* array.join(sep) of an array of strings.
RECURSIVE Join(_, _)
Join(rows, sep) ==
  IF rows = <<>> THEN <<>>
  ELSE IF Len(rows) = 1 THEN rows[1]
  ELSE rows[1] \o sep \o Join(Tail(rows), sep)

-----------------------------------------------------------------------------
(* calculateStatistics                                                       *)

\* array.filter(pred).map(d => d.ms) for the two groups.
RECURSIVE MovedTimes(_)
MovedTimes(data) ==
  IF data = <<>> THEN <<>>
  ELSE (IF data[1].mouseMoved THEN <<data[1].ms>> ELSE <<>>)
         \o MovedTimes(Tail(data))

\* The second filter written as a copy of the first.
NotMovedTimes_SameFilter(data) == MovedTimes(data)

RECURSIVE NotMovedTimes(_)
NotMovedTimes(data) ==
  IF data = <<>> THEN <<>>
  ELSE (IF ~data[1].mouseMoved THEN <<data[1].ms>> ELSE <<>>)
         \o NotMovedTimes(Tail(data))

\* times.reduce((a, b) => a + b, acc): left to right from the initial value.
RECURSIVE ReduceSum(_, _)
ReduceSum(times, acc) ==
  IF times = <<>> THEN acc
  ELSE ReduceSum(Tail(times), FAdd(acc, times[1]))

\* times.reduce((a, b) => a + Math.pow(b - mean, 2), acc)
RECURSIVE ReduceSquares(_, _, _)
ReduceSquares(times, mean, acc) ==
  IF times = <<>> THEN acc
  ELSE ReduceSquares(Tail(times), mean,
                     FAdd(acc, MathPow2(FSub(times[1], mean))))

\* The divisor of a sample standard deviation.
Divisor_Sample(times) == FromInt(Len(times) - 1)

\* A divisor guarded against the empty group.
Divisor_Guarded(times) == FromInt(IF Len(times) = 0 THEN 1 ELSE Len(times))

\* The divisor of the mean and of the variance: the group's length.
Divisor(times) == FromInt(Len(times))

Mean(times) == FDiv(ReduceSum(times, Zero), Divisor(times))

StdDev(times) ==
  MathSqrt(FDiv(ReduceSquares(times, Mean(times), Zero), Divisor(times)))

GroupStats(times) ==
  [count |-> Len(times), mean |-> Mean(times), stdDev |-> StdDev(times)]

calculateStatistics(data) ==
  [mouseMovedStats |-> GroupStats(MovedTimes(data)),
   mouseNotMovedStats |-> GroupStats(NotMovedTimes(data)),
   difference |-> FSub(Mean(MovedTimes(data)), Mean(NotMovedTimes(data)))]

-----------------------------------------------------------------------------
(* The state of the page                                                     *)

VARIABLES
  performanceData,      \* the samples since the last accepted click
  mouseMovedThisFrame,  \* a mousemove arrived since the last frame
  isProcessingClick,    \* a zip is being generated
  lastTime,             \* the timestamp of the last frame, 0 before the first
  rafPending,           \* frame callbacks requested and not yet run
  generating,           \* the zips whose generateAsync promise is pending
  downloads,            \* the zips handed to the browser (link.click())
  frames,               \* frames rendered so far
  lastEvent,            \* the handler that ran last
  highPerformanceMachine, \* the build's HIGH_PERFORMANCE_MACHINE
  calls,                \* the calls the last frame made, in order
  draws,                \* the artboard.draw calls the last frame timed
  elapsedTimeSec,       \* what the last frame passed to the two advance calls
  frameTime,            \* the timestamp the last frame was called with
  movedSinceFrame,      \* a mousemove event was delivered since the last frame
  appended,             \* every sample pushed since the start, in order
  variant,              \* the page of the variant that downloads the table alone
  droppedClick          \* a click found a zip being generated

\* What a frame leaves behind for the renderer and the state machine.
frameVars == <<calls, draws, elapsedTimeSec, frameTime>>

vars == <<performanceData, mouseMovedThisFrame, isProcessingClick, lastTime,
          rafPending, generating, downloads, frames, lastEvent,
          highPerformanceMachine, calls, draws, elapsedTimeSec, frameTime,
          movedSinceFrame, appended, variant, droppedClick>>

\* The draw times a frame may measure (performance.now() differences), ms.
Durations == {Num(5, -1), FromInt(30)}
\* The timestamps the browser may pass to a frame callback, ms.
Times == {0, 16}

Header ==
  <<"D", "r", "a", "w", "T", "i", "m", "e", "(", "m", "s", ")", ",",
    "M", "o", "u", "s", "e", "M", "o", "v", "e", "d">>

\* `${row.ms},${row.mouseMoved}`
CsvRow(row) ==
  NumberToString(row.ms) \o <<",">> \o BooleanToString(row.mouseMoved)

\* join() without an argument separates with a comma.
RowSeparator_Comma == <<",">>

\* The separator of the rows in the table: join("\n").
RowSeparator == <<NL>>

\* "DrawTime(ms),MouseMoved\n" + performanceData.map(...).join("\n")
CsvContent(data) ==
  Header \o <<NL>>
    \o Join([i \in 1..Len(data) |-> CsvRow(data[i])], RowSeparator)

\* "data:text/csv;charset=utf-8,"
DataUriPrefix ==
  <<"d", "a", "t", "a", ":", "t", "e", "x", "t", "/", "c", "s", "v", ";",
    "c", "h", "a", "r", "s", "e", "t", "=", "u", "t", "f", "-", "8", ",">>

\* encodeURI(str): a line feed becomes %0A; the letters, the digits and the
\* marks a table or the prefix holds ( ) , . : ; / = - are kept.
RECURSIVE EncodeURI(_)
EncodeURI(str) ==
  IF str = <<>> THEN <<>>
  ELSE (IF str[1] = NL THEN <<"%", "0", "A">> ELSE <<str[1]>>)
         \o EncodeURI(Tail(str))

\* The href of the link downloadCSV clicks, in the variant that downloads
\* the table alone.
downloadCSV(data) ==
  EncodeURI(DataUriPrefix \o Header \o <<NL>>
              \o Join([i \in 1..Len(data) |-> CsvRow(data[i])], RowSeparator))

\* The values the template of statistics.txt interpolates, each as the
\* string it is written as; the fixed text around them is left out.
StatsText(stats) ==
  [difference |-> ToFixed2(stats.difference),
   movedCount |-> NatToString(stats.mouseMovedStats.count),
   movedMean |-> ToFixed2(stats.mouseMovedStats.mean),
   movedStdDev |-> ToFixed2(stats.mouseMovedStats.stdDev),
   staticCount |-> NatToString(stats.mouseNotMovedStats.count),
   staticMean |-> ToFixed2(stats.mouseNotMovedStats.mean),
   staticStdDev |-> ToFixed2(stats.mouseNotMovedStats.stdDev)]

Zip_StatsAfterReset(data) ==
  [csv |-> CsvContent(data),
   statistics |-> StatsText(calculateStatistics(<<>>))]

\* The two files of the zip.
Zip(data) ==
  [csv |-> CsvContent(data),
   statistics |-> StatsText(calculateStatistics(data))]

\* elapsedTimeMs / 1000, kept as the fraction.
Seconds(ms) == [num |-> ms, den |-> 1000]

\* The page of the variant when its main has installed the listeners.
VariantInit ==
  [performanceData |-> <<>>, mouseMovedThisFrame |-> FALSE, lastTime |-> 0,
   downloads |-> <<>>]

\* What is the same in every initial state: no frame has run, no click has
\* come.
InitRest ==
  /\ mouseMovedThisFrame = FALSE
  /\ isProcessingClick = FALSE
  /\ rafPending = 1
  /\ generating = <<>>
  /\ downloads = <<>>
  /\ calls = <<>>
  /\ draws = 0
  /\ elapsedTimeSec = Seconds(0)
  /\ movedSinceFrame = FALSE
  /\ droppedClick = FALSE

\* The state when main has installed the listeners and requested the first
\* frame.
Init ==
  /\ performanceData = <<>>
  /\ lastTime = 0
  /\ frameTime = 0
  /\ frames = 0
  /\ lastEvent = "main"
  /\ highPerformanceMachine = FALSE
  /\ appended = <<>>
  /\ variant = VariantInit
  /\ InitRest

onMouseMove ==
  /\ mouseMovedThisFrame' = TRUE
  /\ movedSinceFrame' = TRUE
  /\ lastEvent' = "mousemove"
  /\ UNCHANGED <<performanceData, isProcessingClick, lastTime, rafPending,
                 generating, downloads, frames, highPerformanceMachine,
                 frameVars, appended>>

\* A click handler without the guard.
ClickIgnored_Never == FALSE

\* if (isProcessingClick) return;
ClickIgnored == isProcessingClick

\* A click handler that forgets to raise the guard.
BusyOnAccept_Unset == FALSE

\* isProcessingClick = true;
BusyOnAccept == TRUE

\* A click handler that keeps the samples it exported.
ClearedData_Kept == performanceData

\* A click handler that drops the oldest sample only.
ClearedData_DropFirst ==
  IF performanceData = <<>> THEN <<>> ELSE Tail(performanceData)

\* The buffer after an accepted click: performanceData = [].
ClearedData == <<>>

onClick ==
  /\ lastEvent' = "click"
  /\ IF ClickIgnored
       THEN UNCHANGED <<performanceData, mouseMovedThisFrame,
                        isProcessingClick, lastTime, rafPending, generating,
                        downloads, frames, highPerformanceMachine, frameVars,
                        movedSinceFrame, appended>>
       ELSE /\ Len(generating) + Len(downloads) < MaxExports
            /\ isProcessingClick' = BusyOnAccept
            /\ generating' = Append(generating, Zip(performanceData))
            /\ performanceData' = ClearedData
            /\ UNCHANGED <<mouseMovedThisFrame, lastTime, rafPending,
                           downloads, frames, highPerformanceMachine,
                           frameVars, movedSinceFrame, appended>>

\* A completion that leaves the guard raised.
BusyAfterDownload_Stuck == TRUE

\* isProcessingClick = false, the last statement of the then-callback.
BusyAfterDownload == FALSE

\* zip.generateAsync(...).then(...): a pending zip is ready and is downloaded.
zipGenerated ==
  /\ generating # <<>>
  /\ \E i \in 1..Len(generating) :
       /\ downloads' = Append(downloads, generating[i])
       /\ generating' =
            SubSeq(generating, 1, i - 1)
              \o SubSeq(generating, i + 1, Len(generating))
  /\ isProcessingClick' = BusyAfterDownload
  /\ lastEvent' = "zip"
  /\ UNCHANGED <<performanceData, mouseMovedThisFrame, lastTime, rafPending,
                 frames, highPerformanceMachine, frameVars, movedSinceFrame,
                 appended>>

\* if (!lastTime) lastTime = time; const elapsedTimeMs = time - lastTime;
ElapsedTimeMs(time) == time - (IF lastTime = 0 THEN time ELSE lastTime)

FrameCalls_RestoreBeforePush ==
  <<"renderer.clear", "stateMachine.advance", "artboard.advance",
    "renderer.save", "renderer.align", "performance.now", "artboard.draw",
    "performance.now", "renderer.restore", "performanceData.push",
    "rive.resolveAnimationFrame", "requestAnimationFrame">>

\* The calls of one frame, in the order renderLoop makes them; artboard.draw
\* stands for the timed block, one draw or the 2000 of the stress mode.
FrameCalls ==
  <<"renderer.clear", "stateMachine.advance", "artboard.advance",
    "renderer.save", "renderer.align", "performance.now", "artboard.draw",
    "performance.now", "performanceData.push", "renderer.restore",
    "rive.resolveAnimationFrame", "requestAnimationFrame">>

\* for (let i = 0; i < 2000; i++)
StressDraws == 2000

\* The draws between the two performance.now() calls.
Draws == IF highPerformanceMachine THEN StressDraws ELSE 1

FramesRequested_WhenIdle == IF isProcessingClick THEN 0 ELSE 1

\* The requestAnimationFrame calls of one frame.
FramesRequested == 1

FlagAfterFrame_Kept == mouseMovedThisFrame

\* mouseMovedThisFrame = false, the last statement of renderLoop.
FlagAfterFrame == FALSE

Pushed_Replacing(drawTime) ==
  <<[ms |-> drawTime, mouseMoved |-> mouseMovedThisFrame]>>

Pushed_WhenIdle(drawTime) ==
  IF isProcessingClick THEN performanceData
  ELSE Append(performanceData,
              [ms |-> drawTime, mouseMoved |-> mouseMovedThisFrame])

\* performanceData.push({ms: drawTime, mouseMoved: mouseMovedThisFrame})
Pushed(drawTime) ==
  Append(performanceData,
         [ms |-> drawTime, mouseMoved |-> mouseMovedThisFrame])

renderLoop(time, drawTime) ==
  /\ rafPending > 0
  /\ frames < MaxFrames
  /\ time >= frameTime
  /\ frameTime' = time
  /\ elapsedTimeSec' = Seconds(ElapsedTimeMs(time))
  /\ lastTime' = time
  /\ calls' = FrameCalls
  /\ draws' = Draws
  /\ performanceData' = Pushed(drawTime)
  /\ appended' =
       Append(appended, [ms |-> drawTime, mouseMoved |-> mouseMovedThisFrame])
  /\ rafPending' = rafPending - 1 + FramesRequested
  /\ mouseMovedThisFrame' = FlagAfterFrame
  /\ movedSinceFrame' = FALSE
  /\ frames' = frames + 1
  /\ lastEvent' = "frame"
  /\ UNCHANGED <<isProcessingClick, generating, downloads,
                 highPerformanceMachine>>

\* The variant's page is not open.
VariantIdle == UNCHANGED <<variant, droppedClick>>

MouseMoveEvent == onMouseMove /\ VariantIdle
ClickEvent == onClick /\ VariantIdle
ZipEvent == zipGenerated /\ VariantIdle
FrameEvent ==
  \E time \in Times, drawTime \in Durations :
    renderLoop(time, drawTime) /\ VariantIdle

Next ==
  \/ MouseMoveEvent
  \/ ClickEvent
  \/ ZipEvent
  \/ FrameEvent

Spec == Init /\ [][Next]_vars

\* The same program, with the zip generation always completing: the promise
\* of generateAsync is resolved by the event loop once it is pending.
SpecLive == Init /\ [][Next]_vars /\ WF_vars(ZipEvent)

\* The page of either build: HIGH_PERFORMANCE_MACHINE is false in the
\* source and true in the build that repeats the draw.
InitBuilds ==
  /\ performanceData = <<>>
  /\ lastTime = 0
  /\ frameTime = 0
  /\ frames = 0
  /\ lastEvent = "main"
  /\ highPerformanceMachine \in BOOLEAN
  /\ appended = <<>>
  /\ variant = VariantInit
  /\ InitRest

SpecBuilds == InitBuilds /\ [][Next]_vars

\* The browser runs a requested frame callback at the next display refresh.
SpecFrameDriver == Init /\ [][Next]_vars /\ WF_vars(FrameEvent)

-----------------------------------------------------------------------------
(* The statistics and the table on every buffer: the buffer starts as any   *)
(* sequence of samples that MaxFrames frames can have left, and the clicks  *)
(* export it.                                                                *)

\* The handlers of the variant, as the page they leave. Its onMouseMove:
VariantMouseMove == [variant EXCEPT !.mouseMovedThisFrame = TRUE]

VariantClick_KeepsBuffer ==
  [variant EXCEPT
     !.downloads = Append(@, downloadCSV(variant.performanceData))]

\* Its onClick: downloadCSV(performanceData); performanceData = [];
VariantClick ==
  [variant EXCEPT
     !.downloads = Append(@, downloadCSV(variant.performanceData)),
     !.performanceData = <<>>]

\* Its renderLoop.
VariantFrame(time, drawTime) ==
  [variant EXCEPT
     !.lastTime = time,
     !.performanceData =
        Append(@, [ms |-> drawTime,
                   mouseMoved |-> variant.mouseMovedThisFrame]),
     !.mouseMovedThisFrame = FALSE]

\* The two pages side by side, each event delivered to both; the zip of
\* game.ts completes on its own.
BothMouseMove ==
  /\ onMouseMove
  /\ variant' = VariantMouseMove
  /\ UNCHANGED droppedClick

BothClick ==
  /\ Len(variant.downloads) < MaxExports
  /\ onClick
  /\ variant' = VariantClick
  /\ droppedClick' = (droppedClick \/ isProcessingClick)

BothFrame ==
  \E time \in Times, drawTime \in Durations :
    /\ renderLoop(time, drawTime)
    /\ variant' = VariantFrame(time, drawTime)
    /\ UNCHANGED droppedClick

NextBoth ==
  \/ BothMouseMove
  \/ BothClick
  \/ BothFrame
  \/ ZipEvent

SpecBoth == Init /\ [][NextBoth]_vars

\* The timestamps of the frames of a page that is only looked at: 0 for a
\* frame at the time origin, then two display refreshes.
TickTimes == {0, 16, 33}

TimedFrameEvent ==
  \E time \in TickTimes, drawTime \in Durations :
    renderLoop(time, drawTime) /\ VariantIdle

NextTimes ==
  \/ MouseMoveEvent
  \/ TimedFrameEvent

SpecTimes == Init /\ [][NextTimes]_vars

StatDurations == {Num(5, -1), FromInt(10), FromInt(20), FromInt(30)}
StatSamples == [ms : StatDurations, mouseMoved : BOOLEAN]
Buffers == UNION {[1..n -> StatSamples] : n \in 0..MaxFrames}

InitStats ==
  /\ performanceData \in Buffers
  /\ lastTime = (IF performanceData = <<>> THEN 0 ELSE 16)
  /\ frameTime = lastTime
  /\ frames = Len(performanceData)
  /\ lastEvent = (IF performanceData = <<>> THEN "main" ELSE "frame")
  /\ highPerformanceMachine = FALSE
  /\ appended = performanceData
  /\ variant = VariantInit
  /\ InitRest

NextStats == ClickEvent \/ ZipEvent

SpecStats == InitStats /\ [][NextStats]_vars

-----------------------------------------------------------------------------
(* Reading a table back: the lines of a text (a "\n" ends a line, the last  *)
(* line may lack it), the header, and one sample per further line.          *)

RECURSIVE IndexOf(_, _, _)
IndexOf(str, c, i) ==
  IF i > Len(str) THEN 0
  ELSE IF str[i] = c THEN i
  ELSE IndexOf(str, c, i + 1)

RECURSIVE ReadLines(_)
ReadLines(str) ==
  IF str = <<>> THEN <<>>
  ELSE LET i == IndexOf(str, NL, 1)
       IN IF i = 0 THEN <<str>>
          ELSE <<SubSeq(str, 1, i - 1)>>
                 \o ReadLines(SubSeq(str, i + 1, Len(str)))

IsDigits(str) ==
  /\ str # <<>>
  /\ \A i \in 1..Len(str) : \E d \in 1..10 : DigitChars[d] = str[i]

DigitValue(c) == (CHOOSE d \in 1..10 : DigitChars[d] = c) - 1

RECURSIVE ParseNat(_)
ParseNat(str) ==
  IF str = <<>> THEN 0
  ELSE 10 * ParseNat(SubSeq(str, 1, Len(str) - 1)) + DigitValue(str[Len(str)])

\* The number a decimal numeral denotes, rounded to the nearest number;
\* NaN for anything else.
ParseFloat(str) ==
  LET dot == IndexOf(str, ".", 1)
      int == IF dot = 0 THEN str ELSE SubSeq(str, 1, dot - 1)
      frac == IF dot = 0 THEN <<>> ELSE SubSeq(str, dot + 1, Len(str))
  IN IF ~IsDigits(int) \/ (dot # 0 /\ ~IsDigits(frac)) THEN NaN
     ELSE FQuot(1, ParseNat(int) * (10 ^ Len(frac)) + ParseNat(frac),
                10 ^ Len(frac), 0)

ParseRow(line) ==
  LET comma == IndexOf(line, ",", 1)
      flag == SubSeq(line, comma + 1, Len(line))
  IN IF comma = 0 \/ flag \notin {BooleanToString(TRUE), BooleanToString(FALSE)}
       THEN [ms |-> NaN, mouseMoved |-> FALSE]
       ELSE [ms |-> ParseFloat(SubSeq(line, 1, comma - 1)),
             mouseMoved |-> (flag = BooleanToString(TRUE))]

ParseCSV(str) ==
  LET lines == ReadLines(str)
  IN IF lines = <<>> \/ lines[1] # Header
       THEN <<[ms |-> NaN, mouseMoved |-> FALSE]>>
       ELSE [i \in 1..(Len(lines) - 1) |-> ParseRow(lines[i + 1])]

Last(seq) == seq[Len(seq)]

\* The steps of the handlers, told by the handler that ran.
IsClick == lastEvent' = "click"
IsAcceptedClick == lastEvent' = "click" /\ ~isProcessingClick
IsIgnoredClick == lastEvent' = "click" /\ isProcessingClick
IsFrame == lastEvent' = "frame"
IsZipDone == lastEvent' = "zip"

-----------------------------------------------------------------------------
(* The export guard                                                          *)

\* C1: a click that arrives while isProcessingClick is true changes neither
\* the buffer, nor the guard, nor the mouse flag, starts no zip and downloads
\* none; and from an accepted click to the completion of its zip no step
\* (a second click included) starts a zip, downloads one or empties the
\* buffer, so that the completion downloads the one zip there is.
C1_BusyClickIsNoOp ==
  [][isProcessingClick =>
       /\ IsClick =>
            UNCHANGED <<performanceData, isProcessingClick,
                        mouseMovedThisFrame, generating, downloads>>
       /\ ~IsZipDone =>
            /\ isProcessingClick'
            /\ generating' = generating
            /\ downloads' = downloads
            /\ (performanceData = <<>> \/ performanceData' # <<>>)
       /\ IsZipDone =>
            /\ Len(downloads') = Len(downloads) + 1
            /\ generating' = <<>>]_vars

\* A click was ignored: an accepted click leaves the buffer empty, this one
\* found samples and a raised mouse flag and left them.
C1_IgnoredClickReached ==
  /\ lastEvent = "click"
  /\ isProcessingClick
  /\ performanceData # <<>>
  /\ mouseMovedThisFrame
  /\ Len(generating) = 1

\* C2: an accepted click empties the buffer in the same step, and the table
\* of the zip it starts holds exactly the samples the buffer held; a zip,
\* once started, never changes (a frame leaves it alone and the completion
\* downloads it as it is), and a frame's sample goes to the end of the
\* buffer, where it stays until the next accepted click exports it.
C2_ClickSnapshotsAndClears ==
  [][/\ IsAcceptedClick =>
          /\ performanceData' = <<>>
          /\ Len(generating') = Len(generating) + 1
          /\ SubSeq(generating', 1, Len(generating)) = generating
          /\ ParseCSV(Last(generating').csv) = performanceData
          /\ downloads' = downloads
     /\ ~IsAcceptedClick /\ ~IsZipDone =>
          /\ generating' = generating
          /\ downloads' = downloads
     /\ ~IsAcceptedClick =>
          /\ Len(performanceData') >= Len(performanceData)
          /\ SubSeq(performanceData', 1, Len(performanceData))
               = performanceData
     /\ IsFrame => Len(performanceData') = Len(performanceData) + 1
     /\ IsZipDone =>
          \E i \in 1..Len(generating) :
            /\ downloads' = Append(downloads, generating[i])
            /\ Len(generating') = Len(generating) - 1]_vars

\* A frame appended a sample while a zip was being generated, and that zip
\* holds samples of its own.
C2_FrameDuringExportReached ==
  /\ lastEvent = "frame"
  /\ isProcessingClick
  /\ Len(generating) = 1
  /\ Len(ParseCSV(generating[1].csv)) >= 1
  /\ performanceData # <<>>

\* C3: at most one zip is being generated, the guard is raised exactly
\* while one is, and the guard changes only from lowered to raised by an
\* accepted click and from raised to lowered by the completion of the zip,
\* each of which does change it.
C3_GuardIsTwoStateMachine ==
  /\ [](/\ Len(generating) \in {0, 1}
        /\ isProcessingClick <=> (Len(generating) = 1))
  /\ [][/\ (isProcessingClick' # isProcessingClick) =>
             (IF isProcessingClick THEN IsZipDone ELSE IsAcceptedClick)
        /\ IsAcceptedClick => isProcessingClick'
        /\ IsZipDone => ~isProcessingClick']_vars

\* A second export is in flight after the first one completed.
C3_SecondExportReached ==
  /\ isProcessingClick
  /\ Len(generating) = 1
  /\ Len(downloads) = 1
  /\ lastEvent = "click"

\* C4: given that a pending zip generation completes, a raised guard is
\* eventually lowered, and a click that finds the guard lowered is accepted:
\* it raises the guard and starts a zip.
C4_BusyEventuallyClears ==
  /\ isProcessingClick ~> ~isProcessingClick
  /\ [][IsAcceptedClick =>
          /\ isProcessingClick'
          /\ Len(generating') = Len(generating) + 1]_vars

\* The guard was lowered by a completion and a later click was accepted.
C4_AcceptedAfterCompletionReached ==
  /\ downloads # <<>>
  /\ generating # <<>>
  /\ isProcessingClick
  /\ performanceData = <<>>

-----------------------------------------------------------------------------
(* The buffer                                                                *)

\* C5: the two counts calculateStatistics returns for the buffer add up to
\* the buffer's length.
C5_CountsPartitionBuffer ==
  LET stats == calculateStatistics(performanceData)
  IN stats.mouseMovedStats.count + stats.mouseNotMovedStats.count
       = Len(performanceData)

\* A buffer with samples of both groups.
C5_BothGroupsReached ==
  /\ Len(performanceData) >= 3
  /\ \E i, j \in 1..Len(performanceData) :
       performanceData[i].mouseMoved /\ ~performanceData[j].mouseMoved

\* C6: a step leaves the buffer as it is, or adds one sample at its end
\* and keeps the others, or empties it.
C6_BufferStepShapes ==
  [][\/ performanceData' = performanceData
     \/ /\ Len(performanceData') = Len(performanceData) + 1
        /\ SubSeq(performanceData', 1, Len(performanceData))
             = performanceData
     \/ performanceData' = <<>>]_vars

\* A buffer of two samples or more was emptied by a click.
C6_LongBufferClearedReached ==
  /\ lastEvent = "click"
  /\ performanceData = <<>>
  /\ generating # <<>>
  /\ Len(ParseCSV(Last(generating).csv)) >= 2

-----------------------------------------------------------------------------
(* The table                                                                 *)

\* The text a data URI carries: what follows the prefix, with %0A read as a
\* line feed.
RECURSIVE PercentDecode(_)
PercentDecode(str) ==
  IF str = <<>> THEN <<>>
  ELSE IF Len(str) >= 3 /\ SubSeq(str, 1, 3) = <<"%", "0", "A">>
    THEN <<NL>> \o PercentDecode(SubSeq(str, 4, Len(str)))
  ELSE <<str[1]>> \o PercentDecode(Tail(str))

DataUriText(href) ==
  IF Len(href) >= Len(DataUriPrefix)
       /\ SubSeq(href, 1, Len(DataUriPrefix)) = DataUriPrefix
    THEN PercentDecode(SubSeq(href, Len(DataUriPrefix) + 1, Len(href)))
    ELSE <<>>

\* A text is the header line followed by one line for each sample of data,
\* in order, each the number, a comma and the flag.
IsTableOf(str, data) ==
  LET lines == ReadLines(str)
  IN /\ Len(lines) = 1 + Len(data)
     /\ lines[1] = Header
     /\ \A i \in 1..Len(data) :
          LET comma == IndexOf(lines[i + 1], ",", 1)
          IN /\ comma > 1
             /\ ParseFloat(SubSeq(lines[i + 1], 1, comma - 1)) = data[i].ms
             /\ SubSeq(lines[i + 1], comma + 1, Len(lines[i + 1]))
                  = (IF data[i].mouseMoved THEN <<"t", "r", "u", "e">>
                     ELSE <<"f", "a", "l", "s", "e">>)

\* C7: the table an accepted click puts in the zip is the header line
\* followed by one line per sample of the buffer, in order, and reading it
\* back gives the buffer, sample for sample; so does the table the variant's
\* downloadCSV puts in its link.
C7_TableRoundTrip ==
  [][IsAcceptedClick =>
       /\ IsTableOf(Last(generating').csv, performanceData)
       /\ ParseCSV(Last(generating').csv) = performanceData
       /\ IsTableOf(DataUriText(downloadCSV(performanceData)), performanceData)
       /\ ParseCSV(DataUriText(downloadCSV(performanceData)))
            = performanceData]_vars

\* A table of three samples with a fractional duration and both flags was
\* downloaded.
C7_MixedTableDownloadedReached ==
  \E i \in 1..Len(downloads) :
    LET data == ParseCSV(downloads[i].csv)
    IN /\ Len(data) = 3
       /\ data[1].ms = Num(5, -1)
       /\ data[1].mouseMoved
       /\ ~data[2].mouseMoved

-----------------------------------------------------------------------------
(* The statistics                                                            *)

\* The durations of the samples of data whose flag is moved, in order.
GroupOf(data, moved) ==
  LET sel == SelectSeq(data, LAMBDA d : d.mouseMoved = moved)
  IN [i \in 1..Len(sel) |-> sel[i].ms]

\* x[1] + ... + x[n], added from the left.
RECURSIVE SumTo(_, _)
SumTo(x, n) == IF n = 0 THEN Zero ELSE FAdd(SumTo(x, n - 1), x[n])

\* sum(x) / count
PopulationMean(x) == FDiv(SumTo(x, Len(x)), FromInt(Len(x)))

\* sqrt(sum((x - mean)^2) / count)
PopulationStdDev(x) ==
  LET mean == PopulationMean(x)
      sq == [i \in 1..Len(x) |-> FMul(FSub(x[i], mean), FSub(x[i], mean))]
  IN MathSqrt(FDiv(SumTo(sq, Len(x)), FromInt(Len(x))))

Scenario ==
  <<[ms |-> FromInt(10), mouseMoved |-> TRUE],
    [ms |-> FromInt(20), mouseMoved |-> FALSE],
    [ms |-> FromInt(30), mouseMoved |-> TRUE]>>

\* C8: when both groups have samples, calculateStatistics returns for each
\* group its count, mean = sum / count and stdDev = sqrt(sum((x - mean)^2)
\* / count) with the group's count as the divisor, and difference = moved
\* mean - static mean; the buffer [{10,true},{20,false},{30,true}] gives
\* moved {2, 20, 10}, static {1, 20, 0} and difference 0.
C8_PopulationStatistics ==
  LET stats == calculateStatistics(performanceData)
      moved == GroupOf(performanceData, TRUE)
      static == GroupOf(performanceData, FALSE)
  IN /\ (moved # <<>> /\ static # <<>>) =>
          /\ stats.mouseMovedStats
               = [count |-> Len(moved), mean |-> PopulationMean(moved),
                  stdDev |-> PopulationStdDev(moved)]
          /\ stats.mouseNotMovedStats
               = [count |-> Len(static), mean |-> PopulationMean(static),
                  stdDev |-> PopulationStdDev(static)]
          /\ stats.difference
               = FSub(PopulationMean(moved), PopulationMean(static))
     /\ performanceData = Scenario =>
          /\ stats.mouseMovedStats
               = [count |-> 2, mean |-> FromInt(20), stdDev |-> FromInt(10)]
          /\ stats.mouseNotMovedStats
               = [count |-> 1, mean |-> FromInt(20), stdDev |-> Zero]
          /\ stats.difference = Zero

\* The statistics of the scenario's buffer were downloaded.
C8_ScenarioDownloadedReached ==
  \E i \in 1..Len(downloads) :
    /\ ParseCSV(downloads[i].csv) = Scenario
    /\ downloads[i].statistics.movedMean = <<"2", "0", ".", "0", "0">>
    /\ downloads[i].statistics.movedStdDev = <<"1", "0", ".", "0", "0">>
    /\ downloads[i].statistics.staticStdDev = <<"0", ".", "0", "0">>
    /\ downloads[i].statistics.difference = <<"0", ".", "0", "0">>

\* C9: a group without samples has count 0, mean NaN and stdDev NaN, the
\* difference is NaN when either group has none, and a click on such a
\* buffer (the empty one included) is accepted like any other: it starts a
\* zip whose summary reads NaN for these values, and the zip is downloaded.
C9_EmptyGroupsGiveNaN ==
  /\ [](LET stats == calculateStatistics(performanceData)
            moved == GroupOf(performanceData, TRUE)
            static == GroupOf(performanceData, FALSE)
        IN /\ moved = <<>> =>
                stats.mouseMovedStats
                  = [count |-> 0, mean |-> NaN, stdDev |-> NaN]
           /\ static = <<>> =>
                stats.mouseNotMovedStats
                  = [count |-> 0, mean |-> NaN, stdDev |-> NaN]
           /\ (moved = <<>> \/ static = <<>>) => stats.difference = NaN)
  /\ [][/\ IsAcceptedClick =>
             LET moved == GroupOf(performanceData, TRUE)
                 static == GroupOf(performanceData, FALSE)
                 text == Last(generating').statistics
             IN /\ Len(generating') = Len(generating) + 1
                /\ moved = <<>> =>
                     /\ text.movedCount = <<"0">>
                     /\ text.movedMean = <<"N", "a", "N">>
                     /\ text.movedStdDev = <<"N", "a", "N">>
                /\ static = <<>> =>
                     /\ text.staticCount = <<"0">>
                     /\ text.staticMean = <<"N", "a", "N">>
                     /\ text.staticStdDev = <<"N", "a", "N">>
                /\ (moved = <<>> \/ static = <<>>) =>
                     text.difference = <<"N", "a", "N">>
        /\ IsZipDone =>
             \E i \in 1..Len(generating) :
               downloads' = Append(downloads, generating[i])]_vars

\* The export of an empty buffer was downloaded, and so was one of a buffer
\* with samples of one group only.
C9_NaNSummaryDownloadedReached ==
  /\ Len(downloads) = 2
  /\ ParseCSV(downloads[1].csv) # <<>>
  /\ downloads[1].statistics.staticCount = <<"0">>
  /\ downloads[1].statistics.difference = <<"N", "a", "N">>
  /\ downloads[2].csv = Header \o <<NL>>
  /\ downloads[2].statistics.movedMean = <<"N", "a", "N">>

AllEqual(x) == \A i, j \in 1..Len(x) : x[i] = x[j]

\* C10 as stated: the stdDev of a group with samples is a number >= 0, and
\* is 0 when all the durations of the group are equal.
C10_StdDevZeroWhenAllEqual ==
  LET stats == calculateStatistics(performanceData)
      moved == GroupOf(performanceData, TRUE)
      static == GroupOf(performanceData, FALSE)
  IN /\ moved # <<>> =>
          /\ stats.mouseMovedStats.stdDev.k = "num"
          /\ stats.mouseMovedStats.stdDev.m >= 0
          /\ AllEqual(moved) => stats.mouseMovedStats.stdDev = Zero
     /\ static # <<>> =>
          /\ stats.mouseNotMovedStats.stdDev.k = "num"
          /\ stats.mouseNotMovedStats.stdDev.m >= 0
          /\ AllEqual(static) => stats.mouseNotMovedStats.stdDev = Zero

\* C10, amended: the stdDev of a group with samples is a number >= 0, and
\* is 0 when the group has one sample, or two that are equal.
C10_StdDevNonNegative ==
  LET stats == calculateStatistics(performanceData)
      moved == GroupOf(performanceData, TRUE)
      static == GroupOf(performanceData, FALSE)
  IN /\ moved # <<>> =>
          /\ stats.mouseMovedStats.stdDev.k = "num"
          /\ stats.mouseMovedStats.stdDev.m >= 0
          /\ (AllEqual(moved) /\ Len(moved) <= 2) =>
               stats.mouseMovedStats.stdDev = Zero
     /\ static # <<>> =>
          /\ stats.mouseNotMovedStats.stdDev.k = "num"
          /\ stats.mouseNotMovedStats.stdDev.m >= 0
          /\ (AllEqual(static) /\ Len(static) <= 2) =>
               stats.mouseNotMovedStats.stdDev = Zero

\* The statistics of a buffer with two equal moved samples and a static one
\* were downloaded, the moved stdDev written as 0.00.
C10_EqualPairDownloadedReached ==
  \E i \in 1..Len(downloads) :
    LET data == ParseCSV(downloads[i].csv)
    IN /\ Len(data) = 3
       /\ data[1] = data[2]
       /\ data[1].mouseMoved
       /\ ~data[3].mouseMoved
       /\ downloads[i].statistics.movedStdDev = <<"0", ".", "0", "0">>
       /\ downloads[i].statistics.staticStdDev = <<"0", ".", "0", "0">>

-----------------------------------------------------------------------------
(* The frame loop                                                            *)

\* C11: every frame appends exactly one sample at the end of the buffer,
\* tagged with the value mouseMovedThisFrame has when the frame starts,
\* whether or not a zip is being generated and whether the frame timed one
\* draw or the 2000 of the stress mode; no other handler makes the buffer
\* longer.
C11_FrameAppendsOneSample ==
  [][/\ IsFrame =>
          /\ Len(performanceData') = Len(performanceData) + 1
          /\ SubSeq(performanceData', 1, Len(performanceData)) =
               performanceData
          /\ Last(performanceData').mouseMoved = mouseMovedThisFrame
          /\ Last(performanceData').ms \in Durations
          /\ draws' = (IF highPerformanceMachine THEN 2000 ELSE 1)
     /\ ~IsFrame => performanceData' \in {performanceData, <<>>}]_vars

\* A frame of the stress build timed its 2000 draws while a zip was being
\* generated and appended a second sample, tagged true.
C11_StressFrameDuringExportReached ==
  /\ lastEvent = "frame"
  /\ isProcessingClick
  /\ draws = StressDraws
  /\ Len(performanceData) = 2
  /\ Last(performanceData).mouseMoved

\* C12: mouseMovedThisFrame is false right after every frame, whatever it
\* was before; so the sample a frame appends is tagged true exactly when a
\* mousemove event was delivered after the previous frame ended (after main
\* installed the listeners, for the first frame) and before this frame.
C12_FlagClearedEachFrame ==
  [][IsFrame =>
       /\ mouseMovedThisFrame' = FALSE
       /\ Last(performanceData').mouseMoved = movedSinceFrame]_vars

\* A frame that followed a mousemove was tagged true and the next frame, with
\* no mousemove in between, was tagged false.
C12_TrueThenFalseReached ==
  /\ lastEvent = "frame"
  /\ ~mouseMovedThisFrame
  /\ Len(appended) >= 2
  /\ appended[Len(appended) - 1].mouseMoved
  /\ ~Last(appended).mouseMoved

\* C13: for every non-decreasing sequence of frame timestamps >= 0, 0
\* included, the elapsed time passed to the two advance calls is 0 on the
\* first frame and (time - the previous frame's timestamp) / 1000 on every
\* later frame, and after each frame lastTime is that frame's timestamp.
C13_ElapsedIsTimestampDifference ==
  [][IsFrame =>
       /\ lastTime' = frameTime'
       /\ elapsedTimeSec' =
            (IF frames = 0 THEN Seconds(0)
             ELSE Seconds(frameTime' - frameTime))]_vars

\* Call a was made in the last frame, and every time before any call b.
Precedes(a, b) ==
  /\ \E i \in 1..Len(calls) : calls[i] = a
  /\ \E j \in 1..Len(calls) : calls[j] = b
  /\ \A i, j \in 1..Len(calls) : (calls[i] = a /\ calls[j] = b) => i < j

Advances == {"stateMachine.advance", "artboard.advance"}
RenderSetup == {"renderer.clear", "renderer.save", "renderer.align"}

\* C14: in every frame the two advance calls (state machine, artboard) come
\* before every call of the render setup (clear, save, align), the render
\* setup before the timed draw, the timed draw before the push of the
\* sample, and the push before renderer.restore.
C14_AdvanceBeforeRenderSetup ==
  calls # <<>> =>
    /\ \A a \in Advances, s \in RenderSetup : Precedes(a, s)
    /\ \A s \in RenderSetup : Precedes(s, "artboard.draw")
    /\ Precedes("artboard.draw", "performanceData.push")
    /\ Precedes("performanceData.push", "renderer.restore")

\* C14, amended: in every frame renderer.clear comes first, then the two
\* advance calls, then renderer.save and renderer.align, then the timed
\* draw, then the push of the sample, then renderer.restore.
C14_ClearThenAdvanceThenSaveAlign ==
  calls # <<>> =>
    /\ \A a \in Advances : Precedes("renderer.clear", a)
    /\ \A a \in Advances, s \in {"renderer.save", "renderer.align"} :
         Precedes(a, s)
    /\ \A s \in RenderSetup : Precedes(s, "artboard.draw")
    /\ Precedes("artboard.draw", "performanceData.push")
    /\ Precedes("performanceData.push", "renderer.restore")

\* A second frame has made its calls and pushed its sample.
C14_SecondFrameCallsReached ==
  /\ lastEvent = "frame"
  /\ frames = 2
  /\ Len(calls) = 12
  /\ Len(appended) = 2

\* C15: the frame loop never stops and runs one frame at a time. From the
\* request main makes, every frame requests exactly one next frame, so one
\* frame callback is pending between frames; a step is one handler alone (a
\* frame leaves the guard and the zips alone, a click or a finished zip
\* leaves the frame's variables alone); and with a fair frame driver the
\* next frame always comes, also while a zip is being generated (frames are
\* counted up to MaxFrames).
C15_FrameLoopPerpetual ==
  /\ [](rafPending = 1)
  /\ [][/\ IsFrame =>
             /\ rafPending' = rafPending
             /\ frames' = frames + 1
             /\ UNCHANGED <<isProcessingClick, generating, downloads>>
        /\ ~IsFrame => UNCHANGED <<frames, rafPending, frameVars, lastTime>>
        /\ (frames < MaxFrames) => ENABLED FrameEvent]_vars
  /\ \A n \in 0..(MaxFrames - 1) : (frames = n) ~> (frames = n + 1)

\* The last counted frame ran while a zip was being generated, and the next
\* frame is requested.
C15_FramesDuringExportReached ==
  /\ lastEvent = "frame"
  /\ frames = MaxFrames
  /\ isProcessingClick
  /\ generating # <<>>
  /\ rafPending = 1

-----------------------------------------------------------------------------
(* Reporting windows                                                         *)

\* The zips of the accepted clicks, in the order of the clicks: a zip is
\* downloaded before the next click is accepted.
Exports == downloads \o generating

RECURSIVE TablesOf(_)
\* The samples of the tables of a sequence of zips, one after the other.
TablesOf(zips) ==
  IF zips = <<>> THEN <<>>
  ELSE ParseCSV(zips[1].csv) \o TablesOf(Tail(zips))

\* C16: no sample is lost or duplicated across reporting windows: the
\* samples of the tables of all accepted exports, in the order of their
\* clicks, followed by the buffer, are the samples the frames have appended
\* since the start, in order.
C16_WindowsPartitionSamples ==
  TablesOf(Exports) \o performanceData = appended

\* One window was downloaded, a second is being generated and a third is
\* in the buffer, each with a sample.
C16_ThreeWindowsReached ==
  /\ Len(downloads) = 1
  /\ Len(generating) = 1
  /\ Len(ParseCSV(downloads[1].csv)) = 1
  /\ Len(ParseCSV(generating[1].csv)) = 1
  /\ Len(performanceData) = 1
  /\ Len(appended) = 3

\* C17: in every zip the summary and the table describe the same snapshot:
\* the moved count plus the static count written in statistics.txt is the
\* number of sample lines of performance_data.csv, also when frames push
\* samples between the click and the end of the generation.
C17_SummaryCountsMatchTable ==
  \A i \in 1..Len(Exports) :
    ParseNat(Exports[i].statistics.movedCount)
        + ParseNat(Exports[i].statistics.staticCount)
      = Len(ReadLines(Exports[i].csv)) - 1

\* A frame pushed a sample while a zip of one moved and one static sample
\* was being generated.
C17_FrameAfterSnapshotReached ==
  /\ lastEvent = "frame"
  /\ performanceData # <<>>
  /\ Len(generating) = 1
  /\ generating[1].statistics.movedCount = <<"1">>
  /\ generating[1].statistics.staticCount = <<"1">>
  /\ Len(ReadLines(generating[1].csv)) = 3

-----------------------------------------------------------------------------
(* The two variants                                                          *)

\* C18: as long as no click has arrived while a zip was being generated,
\* the variant that downloads the table at once and game.ts agree after
\* every event: same buffer, same mouseMovedThisFrame, and the same tables
\* exported in the same order (the variant's read from its data URIs).
C18_VariantsAgreeWithoutDroppedClick ==
  ~droppedClick =>
    /\ variant.performanceData = performanceData
    /\ variant.mouseMovedThisFrame = mouseMovedThisFrame
    /\ Len(variant.downloads) = Len(Exports)
    /\ \A i \in 1..Len(Exports) :
         DataUriText(variant.downloads[i]) = Exports[i].csv

\* Both pages have exported two tables with samples, the second click
\* accepted after the first zip was downloaded, and hold a later sample.
C18_TwoExportsOnBothReached ==
  /\ ~droppedClick
  /\ Len(variant.downloads) = 2
  /\ Len(Exports) = 2
  /\ Len(downloads) >= 1
  /\ \A i \in 1..2 : Len(ParseCSV(Exports[i].csv)) >= 1
  /\ variant.performanceData # <<>>

====
